---- MODULE Spec2Model ----
(***************************************************************************)
(* State-machine model of the BirthdayWish component.  The repository      *)
(* holds six variants of the same component; the variable "variant" says   *)
(* which file a behaviour is a run of.  React state is the value last set  *)
(* by a setter; passive effects are flushed by FlushEffects after the      *)
(* state they depend on has changed.  Browser callbacks (promise           *)
(* continuations, animation frames, timers) are separate actions.          *)
(***************************************************************************)
EXTENDS Integers, Sequences, FiniteSets

VARIABLES variant,      \* which source file is running
          mounted,      \* the component is mounted
          opened, candlesBlown, showMessage, listening,   \* useState
          gum,          \* getUserMedia promise: none | pending | granted | rejected
          gumCount,     \* number of getUserMedia requests made so far
          trackLive,    \* the tracks of the acquired stream are live
          micStreamRef, \* micStreamRef.current is set (rich variants)
          ctxState,     \* AudioContext: none | open | closed
          audioCtxRef,  \* audioCtxRef.current is set (rich variants)
          rafPending,   \* volume checks scheduled with requestAnimationFrame
          rafRef,       \* rafRef.current is set (rich variants)
          dataArray,    \* index of the analyser reading held by dataArray
          crossed,      \* a volume check has taken the threshold branch
          depsOpened, depsBlown,   \* dependency values seen by the last effect run
          micCleanup,   \* the last run of the mic effect returned a cleanup
          timerLeft,    \* ms left on the message timer, NoTimer when not set
          sinceBlown,   \* ms elapsed since candlesBlown became true (capped)
          playReq,      \* audio.play() promise: none | pending | resolved | rejected
          audioPlaying, \* the audio element is playing
          touchStartY,  \* touchStartY.current, NoTouch for null
          size,         \* ResponsiveCanvas state: <<width, height>>
          balloons,     \* useState: the balloon ids, in list order
          burstPoints,  \* useState: the position of each burst point
          cupcakes,     \* useState: the cupcake positions
          frozen,       \* useState (part_001, part_004)
          captures,     \* html2canvas promises not yet settled
          unfreezeTimers, \* ms left on each pending "setFrozen(false)" timer
          shots,        \* calls of takeScreenshot so far
          tap,          \* balloon whose pointer-down ran, click still to come
          pops,         \* calls of handleBalloonPop so far
          moved,        \* scene objects whose transform the last frame changed
          bannerPose,   \* pose of the banner group: rest | waving
          active,       \* useState of ShootingStar (BirthdayWish.jsx)
          meshY,        \* position.y of the star mesh, in tenths
          meshIdx1,     \* property "1" of the position of the star mesh
          muted,        \* useState (part_004)
          audioMuted    \* muted property of the audio element

uiVars    == <<opened, candlesBlown, showMessage, listening>>
micVars   == <<gum, gumCount, trackLive, micStreamRef, ctxState, audioCtxRef,
               rafPending, rafRef, dataArray, crossed>>
effVars   == <<depsOpened, depsBlown, micCleanup>>
timeVars  == <<timerLeft, sinceBlown>>
audioVars == <<playReq, audioPlaying>>
sceneVars == <<size, balloons, burstPoints, cupcakes, frozen, captures,
               unfreezeTimers, shots, tap, pops, moved, bannerPose>>
starVars  == <<active, meshY, meshIdx1>>
muteVars  == <<muted, audioMuted>>
vars      == <<variant, mounted, uiVars, micVars, effVars, timeVars, audioVars,
               touchStartY, sceneVars, starVars, muteVars>>

(***************************************************************************)
(* The variants                                                            *)
(***************************************************************************)
Main == "BirthdayWish.jsx"
P0   == "part_000"
P1   == "part_001"
P2   == "part_002"
P3   == "part_003"
P4   == "part_004"

Variants == {Main, P0, P1, P2, P3, P4}
\* variants that keep the audio objects in refs and return an effect cleanup
Rich     == {P1, P2, P4}
\* variants with the showMessage timer effect
Timed    == {P0, P3}
\* variants whose gift click handler calls audio.play() itself
PlayInHandler == {P1, P4}
\* variants whose <audio> element carries the autoPlay attribute
AutoPlayAttr  == {Main, P1, P2, P3, P4}

\* blow detection threshold of each variant
Threshold(v) ==
  CASE v = P1 -> 78
    [] v = P4 -> 82
    [] OTHER  -> 60

fftSize  == 256
\* analyser.frequencyBinCount
BinCount == fftSize \div 2
MaxByte  == 255

MessageDelay == 3000
SwipeMin     == 60

\* granularity of the passage of time, in ms
TickMs   == 1000
NoTimer  == -1
NoTouch  == -1

(***************************************************************************)
(* Analyser readings.  A reading is the Uint8Array filled by               *)
(* getByteFrequencyData; the model draws it from a few arrays around the   *)
(* threshold of the variant.                                               *)
(***************************************************************************)
Flat(b) == [i \in 1..BinCount |-> b]
Bump(b) == [i \in 1..BinCount |-> IF i = 1 THEN b + 1 ELSE b]

NumSamples == 6
Sample(thr, k) ==
  CASE k = 1 -> Flat(0)
    [] k = 2 -> Flat(thr - 1)
    [] k = 3 -> Flat(thr)
    [] k = 4 -> Bump(thr)
    [] k = 5 -> Flat(thr + 1)
    [] OTHER -> Flat(MaxByte)

RECURSIVE SumRange(_, _, _)
\* sum of arr[lo..hi], halving the range to keep the recursion shallow
SumRange(arr, lo, hi) ==
  IF lo > hi THEN 0
  ELSE IF lo = hi THEN arr[lo]
  ELSE LET mid == (lo + hi) \div 2
       IN  SumRange(arr, lo, mid) + SumRange(arr, mid + 1, hi)
\* dataArray.reduce((a, b) => a + b, 0)
Sum(arr) == SumRange(arr, 1, Len(arr))

\* avg >= thr, with avg = Sum(arr) / arr.length a real number
AvgAtLeast(arr, thr) == Sum(arr) >= thr * Len(arr)
\* avg > thr
AvgAbove(arr, thr)   == Sum(arr) > thr * Len(arr)

CrossesInclusive(arr, thr) == AvgAtLeast(arr, thr)
\* the test "if (avg > threshold)" of the volume check
Crosses(arr, thr) == AvgAbove(arr, thr)

CrossTable ==
  [v \in Variants |->
     [k \in 1..NumSamples |-> Crosses(Sample(Threshold(v), k), Threshold(v))]]
AtLeastTable ==
  [v \in Variants |->
     [k \in 1..NumSamples |-> AvgAtLeast(Sample(Threshold(v), k), Threshold(v))]]
AboveTable ==
  [v \in Variants |->
     [k \in 1..NumSamples |-> AvgAbove(Sample(Threshold(v), k), Threshold(v))]]

(***************************************************************************)
(* Helpers                                                                 *)
(***************************************************************************)
\* a state setter called after unmount has no effect
SetState(cur, new) == IF mounted THEN new ELSE cur

Min(a, b) == IF a < b THEN a ELSE b
Max(a, b) == IF a > b THEN a ELSE b

\* no passive effect is waiting for a flush
EffectsFlushed == opened = depsOpened /\ candlesBlown = depsBlown

MicEffectRunsAlways(o, b) == o
\* guard of the mic effect: "if (!opened || candlesBlown) return"
MicEffectRuns(o, b) == o /\ ~b

RafAlways(cross, pend) == pend + 1
RafNever(cross, pend)  == pend
\* the volume check reschedules itself unless it took the threshold branch
RafAfterCheck(cross, pend) == IF cross THEN pend ELSE pend + 1

\* the mic effect returns a cleanup function
HasMicCleanup(v) == v \in Rich

ChainOnRejectAlways(v) == TRUE
\* after a rejected getUserMedia the continuation still starts the check chain
ChainOnReject(v) == v \in Rich

TimerImmediate(b) == IF b THEN 0 ELSE NoTimer
\* "if (candlesBlown) timer = setTimeout(..., 3000)"
TimerStart(b) == IF b THEN MessageDelay ELSE NoTimer

\* cancelAnimationFrame(rafRef.current), guarded by "if (rafRef.current)"
CancelRaf(ref, pend) == IF ref /\ pend > 0 THEN pend - 1 ELSE pend

(***************************************************************************)
(* What the render function returns                                        *)
(***************************************************************************)
GiftAlways == TRUE
GiftRendered == ~opened
ScenePanelRendered == opened
ConfettiRendered == opened
FlamesRendered == opened /\ ~candlesBlown
BlowButtonRendered == opened /\ ~candlesBlown

MessageDisplayed ==
  CASE variant = P0 -> opened /\ candlesBlown /\ showMessage
    [] variant = P3 -> showMessage
    [] OTHER        -> opened /\ candlesBlown

(***************************************************************************)
(* The three.js scene of part_001, part_002 and part_004                   *)
(***************************************************************************)
\* tunables of part_004
BALLOON_COUNT   == 5
BURST_PARTICLES == 10
CUPCAKE_COUNT   == 10

\* delay of the "setFrozen(false)" timer
UnfreezeDelay == 800
NoTap == 0

\* number of balloons the mount effect creates
BalloonCount(v) ==
  CASE v = P1 -> 6 [] v = P2 -> 6 [] v = P4 -> BALLOON_COUNT [] OTHER -> 0

\* number of points of one burst
BurstSize(v) ==
  CASE v = P1 -> 10 [] v = P2 -> 12 [] v = P4 -> BURST_PARTICLES [] OTHER -> 0

CupcakeCountSame(v) == 12
\* number of cupcakes the candlesBlown effect creates
CupcakeCount(v) ==
  CASE v = P1 -> 12 [] v = P2 -> 16 [] v = P4 -> CUPCAKE_COUNT [] OTHER -> 0

\* "Array.from({ length: n }).map((_, i) => ({ id: `b-${i}-...`, pos }))":
\* a balloon is identified by the index i in its id
InitialBalloons(v) == [i \in 1..BalloonCount(v) |-> i]

\* position of balloon id (ref.current.position of its group), and the
\* region near the cake where the candlesBlown effect places its burst
PositionOf(id) == id
CakePos == 0

RemoveFirstBalloon(bs, id) == IF bs = <<>> THEN bs ELSE Tail(bs)
\* "prev.filter((b) => b.id !== id)"
RemoveBalloon(bs, id) == SelectSeq(bs, LAMBDA b : b # id)

\* "Array.from({ length: n }).map(() => ({ pos: worldPos.clone(), ... }))"
PopGroup(v, pos) == [i \in 1..BurstSize(v) |-> pos]

\* the burst and the cupcakes created by the candlesBlown effect
CakeBurst(v)   == [i \in 1..BurstSize(v) |-> CakePos]
CupcakeRain(v) == [i \in 1..CupcakeCount(v) |-> i]

FovInclusive(v, w) ==
  IF v \in {Main, P0, P3}
    THEN IF w <= 640 THEN 65 ELSE IF w <= 1024 THEN 55 ELSE 50
    ELSE IF v = P4
           THEN IF w <= 420 THEN 72 ELSE IF w <= 768 THEN 62 ELSE 50
           ELSE IF w <= 420 THEN 70 ELSE IF w <= 768 THEN 60 ELSE 50
\* "const fov = size.width < a ? x : size.width < b ? y : 50"
Fov(v, w) ==
  IF v \in {Main, P0, P3}
    THEN IF w < 640 THEN 65 ELSE IF w < 1024 THEN 55 ELSE 50
    ELSE IF v = P4
           THEN IF w < 420 THEN 72 ELSE IF w < 768 THEN 62 ELSE 50
           ELSE IF w < 420 THEN 70 ELSE IF w < 768 THEN 60 ELSE 50

\* "{size.width && size.height && (<Canvas ...>)}" in the variants without
\* refs, "{size.width > 0 && (<Canvas ...>)}" in the others; ResponsiveCanvas
\* itself is inside the opened panel
CanvasShown(v, w, h) ==
  IF v \in {Main, P0, P3} THEN w # 0 /\ h # 0 ELSE w > 0

CanvasRendered == opened /\ CanvasShown(variant, size[1], size[2])

ScreenshotAlways == variant \in Rich /\ opened
\* the "Take a screenshot" button is in the else branch of "!candlesBlown ?"
ScreenshotButtonRendered == variant \in Rich /\ opened /\ candlesBlown

\* variants with the frozen state
HasFrozen(v) == v \in {P1, P4}

UnfreezeOnSuccess(ok) == ok
\* "finally { setTimeout(() => setFrozen(false), 800) }" runs after a capture
\* that succeeded and after one that threw
UnfreezeScheduled(ok) == TRUE

\* a balloon is in the scene: "{!candlesBlown && balloons.map(...)}" in
\* part_001 and part_004, "{balloons.map(...)}" in part_002
BalloonRendered(id) ==
  /\ CanvasRendered
  /\ \E i \in 1..Len(balloons) : balloons[i] = id
  /\ variant = P2 \/ ~candlesBlown

\* the kinds of scene object that have a per-frame callback
Kinds == {"flames", "balloons", "bursts", "fireworks", "cupcakes",
          "shootingStars", "banner", "stars"}

\* objects of kind k are in the scene (given that the Canvas is)
ObjectRendered(k) ==
  CASE k = "flames"    -> ~candlesBlown
    [] k = "balloons"  -> balloons # <<>> /\ (variant = P2 \/ ~candlesBlown)
    [] k = "bursts"    -> burstPoints # <<>>
    [] k = "fireworks" -> candlesBlown
    [] k = "cupcakes"  -> cupcakes # <<>> /\ (variant = P2 \/ candlesBlown)
    [] OTHER           -> TRUE

\* the per-frame callback of kind k starts with "if (... || frozen) return":
\* all of part_004 but the banner, all of part_001 but the banner and the
\* cupcakes (Cupcake takes no frozen prop there), none of part_002
ReturnsWhenFrozen(k, v) ==
  /\ HasFrozen(v)
  /\ k # "banner"
  /\ ~(v = P1 /\ k = "cupcakes")

(***************************************************************************)
(* The mute toggle of part_004                                             *)
(***************************************************************************)
OpenMutedOff(m) == FALSE
\* the value openAndPlay writes to the muted property of the audio element:
\* the muted state of the render the handler belongs to
OpenMuted(m) == m

\* "const next = !m"
ToggleNext(m) == ~m

(***************************************************************************)
(* ShootingStar of BirthdayWish.jsx.  Lengths are in tenths of a unit.  A  *)
(* JavaScript number is an integer, "NaN", or "undefined" for a property   *)
(* that was never written.                                                 *)
(***************************************************************************)
\* "setPos([..., 15, ...])" and "position[1] -= 0.3"
StarStartY == 150
StarStep   == 3

\* "a -= d": undefined and NaN both give NaN
JsSub(a, d) == IF a \in {"undefined", "NaN"} THEN "NaN" ELSE a - d
\* "a < n": false when a is NaN
JsLess(a, n) == IF a \in {"undefined", "NaN"} THEN FALSE ELSE a < n

(***************************************************************************)
(* Initial state: the component has just been mounted and the effects of   *)
(* the first render have run (all of them return early).                   *)
(***************************************************************************)
Init ==
  /\ variant \in Variants
  /\ mounted = TRUE
  /\ opened = FALSE /\ candlesBlown = FALSE
  /\ showMessage = FALSE /\ listening = FALSE
  /\ gum = "none" /\ gumCount = 0
  /\ trackLive = FALSE /\ micStreamRef = FALSE
  /\ ctxState = "none" /\ audioCtxRef = FALSE
  /\ rafPending = 0 /\ rafRef = FALSE
  /\ dataArray = 1 /\ crossed = FALSE
  /\ depsOpened = FALSE /\ depsBlown = FALSE /\ micCleanup = FALSE
  /\ timerLeft = NoTimer /\ sinceBlown = 0
  /\ playReq = "none" /\ audioPlaying = FALSE
  /\ touchStartY = NoTouch
  /\ size = <<0, 0>>
  /\ balloons = InitialBalloons(variant)
  /\ burstPoints = <<>> /\ cupcakes = <<>>
  /\ frozen = FALSE /\ captures = 0 /\ unfreezeTimers = <<>> /\ shots = 0
  /\ tap = NoTap /\ pops = 0
  /\ moved = {} /\ bannerPose = "rest"
  /\ active = FALSE /\ meshY = StarStartY /\ meshIdx1 = "undefined"
  /\ muted = FALSE /\ audioMuted = FALSE

(***************************************************************************)
(* The volume check (checkVolume / analyze / detect), run with reading k.  *)
(* pend, mref, live, aref, ctx and lis are the values left by the code     *)
(* that ran before the check in the same callback.                         *)
(***************************************************************************)
VolumeCheck(k, pend, mref, live, aref, ctx, lis) ==
  LET cross == CrossTable[variant][k] IN
  /\ dataArray' = k
  /\ crossed' = (crossed \/ cross)
  /\ candlesBlown' = IF cross THEN SetState(candlesBlown, TRUE) ELSE candlesBlown
  /\ rafPending' = RafAfterCheck(cross, pend)
  /\ IF variant \in Rich
       THEN /\ trackLive' = IF cross /\ mref THEN FALSE ELSE live
            /\ micStreamRef' = IF cross THEN FALSE ELSE mref
            /\ ctxState' = IF cross /\ aref THEN "closed" ELSE ctx
            /\ audioCtxRef' = IF cross THEN FALSE ELSE aref
            /\ listening' = IF cross THEN SetState(lis, FALSE) ELSE lis
            /\ rafRef' = IF cross THEN rafRef ELSE TRUE
       ELSE /\ trackLive' = IF cross THEN FALSE ELSE live
            /\ ctxState' = IF cross THEN "closed" ELSE ctx
            /\ micStreamRef' = mref
            /\ audioCtxRef' = aref
            /\ listening' = lis
            /\ rafRef' = rafRef

\* a scheduled check runs on an animation frame
RafCheck(k) ==
  /\ rafPending > 0
  /\ VolumeCheck(k, rafPending - 1, micStreamRef, trackLive, audioCtxRef,
                 ctxState, listening)
  /\ UNCHANGED <<variant, mounted, opened, showMessage, gum, gumCount,
                 effVars, timeVars, audioVars, touchStartY,
                 sceneVars, starVars, muteVars>>

(***************************************************************************)
(* getUserMedia settles                                                    *)
(***************************************************************************)
\* the permission is granted: the rest of enableMic / start runs
GumGrant(k, gainThrows) ==
  /\ gum = "pending"
  /\ gum' = "granted"
  /\ IF variant \in Rich
       THEN IF variant = P2 /\ ctxState = "closed" /\ gainThrows
              THEN \* createGain on the closed context throws: outer catch
                   /\ micStreamRef' = TRUE
                   /\ trackLive' = TRUE
                   /\ listening' = SetState(listening, FALSE)
                   /\ UNCHANGED <<candlesBlown, ctxState, audioCtxRef,
                                  rafPending, rafRef, dataArray, crossed>>
              ELSE VolumeCheck(k, rafPending, TRUE, TRUE, audioCtxRef,
                               ctxState, SetState(listening, TRUE))
       ELSE VolumeCheck(k, rafPending, micStreamRef, TRUE, audioCtxRef,
                        "open", listening)
  /\ UNCHANGED <<variant, mounted, opened, showMessage, gumCount,
                 effVars, timeVars, audioVars, touchStartY,
                 sceneVars, starVars, muteVars>>

\* the permission is refused: the catch block runs, then the rest of start
GumReject(k, gainThrows) ==
  /\ gum = "pending"
  /\ gum' = "rejected"
  /\ IF ChainOnReject(variant)
       THEN IF variant = P2 /\ ctxState = "closed" /\ gainThrows
              THEN /\ listening' = SetState(listening, FALSE)
                   /\ UNCHANGED <<candlesBlown, trackLive, micStreamRef,
                                  ctxState, audioCtxRef, rafPending, rafRef,
                                  dataArray, crossed>>
              ELSE VolumeCheck(k, rafPending, micStreamRef, trackLive,
                               audioCtxRef, ctxState,
                               IF variant \in Rich
                                 THEN SetState(listening, TRUE)
                                 ELSE listening)
       ELSE UNCHANGED <<candlesBlown, listening, trackLive, micStreamRef,
                        ctxState, audioCtxRef, rafPending, rafRef, dataArray,
                        crossed>>
  /\ UNCHANGED <<variant, mounted, opened, showMessage, gumCount,
                 effVars, timeVars, audioVars, touchStartY,
                 sceneVars, starVars, muteVars>>

(***************************************************************************)
(* User events.  React flushes pending passive effects before it handles   *)
(* a discrete event, hence the EffectsFlushed guards.                      *)
(***************************************************************************)
\* click on the gift: setOpened(true), and audio.play() where the handler
\* calls it
GiftClick ==
  /\ mounted /\ EffectsFlushed
  /\ GiftRendered
  /\ opened' = TRUE
  /\ playReq' = IF variant \in PlayInHandler THEN "pending" ELSE playReq
  \* openAndPlay of part_004: "audioRef.current.muted = muted"
  /\ audioMuted' = IF variant = P4 THEN OpenMuted(muted) ELSE audioMuted
  /\ UNCHANGED <<variant, mounted, candlesBlown, showMessage, listening,
                 micVars, effVars, timeVars, audioPlaying, touchStartY,
                 sceneVars, starVars, muted>>

\* click on "Blow the candles": setCandlesBlown(true)
BlowClick ==
  /\ mounted /\ EffectsFlushed
  /\ BlowButtonRendered
  /\ candlesBlown' = TRUE
  /\ UNCHANGED <<variant, mounted, opened, showMessage, listening,
                 micVars, effVars, timeVars, audioVars, touchStartY,
                 sceneVars, starVars, muteVars>>

TouchYs == {0, 100, 160, 161}

\* handleTouchStart
TouchStart(y) ==
  /\ mounted /\ EffectsFlushed
  /\ variant \in Rich
  /\ touchStartY' = y
  /\ UNCHANGED <<variant, mounted, uiVars, micVars, effVars, timeVars,
                 audioVars,
                 sceneVars, starVars, muteVars>>

\* handleTouchEnd
TouchEnd(y) ==
  /\ mounted /\ EffectsFlushed
  /\ variant \in Rich
  /\ ~(touchStartY = NoTouch \/ touchStartY = 0)
  /\ candlesBlown' = IF touchStartY - y > SwipeMin THEN TRUE ELSE candlesBlown
  /\ touchStartY' = NoTouch
  /\ UNCHANGED <<variant, mounted, opened, showMessage, listening,
                 micVars, effVars, timeVars, audioVars,
                 sceneVars, starVars, muteVars>>

(***************************************************************************)
(* Passive effects                                                         *)
(***************************************************************************)
\* Runs the effects whose dependencies changed: first the cleanups of their
\* previous run, then their bodies in declaration order.
FlushEffects ==
  /\ mounted /\ ~EffectsFlushed
  /\ LET changedO == opened # depsOpened
         changedB == candlesBlown # depsBlown
         \* cleanup returned by the previous run of the mic effect
         clean == micCleanup
         raf1  == IF clean THEN CancelRaf(rafRef, rafPending) ELSE rafPending
         live1 == IF clean /\ micStreamRef THEN FALSE ELSE trackLive
         mref1 == IF clean THEN FALSE ELSE micStreamRef
         ctx1  == IF clean /\ audioCtxRef THEN "closed" ELSE ctxState
         aref1 == IF clean THEN FALSE ELSE audioCtxRef
         lis1  == IF clean THEN FALSE ELSE listening
         \* body of the mic effect
         runMic == MicEffectRuns(opened, candlesBlown)
         ctx2  == IF runMic /\ variant \in Rich THEN "open" ELSE ctx1
         aref2 == IF runMic /\ variant \in Rich THEN TRUE ELSE aref1
         \* body of the candlesBlown effect of the rich variants
         runBlow == variant \in Rich /\ changedB /\ candlesBlown
     IN
     /\ rafPending' = raf1
     /\ gum' = IF runMic THEN "pending" ELSE gum
     /\ gumCount' = IF runMic THEN gumCount + 1 ELSE gumCount
     /\ micCleanup' = (runMic /\ HasMicCleanup(variant))
     /\ trackLive' = IF runBlow /\ mref1 THEN FALSE ELSE live1
     /\ micStreamRef' = IF runBlow THEN FALSE ELSE mref1
     /\ ctxState' = IF runBlow /\ aref2 THEN "closed" ELSE ctx2
     /\ audioCtxRef' = IF runBlow THEN FALSE ELSE aref2
     /\ listening' = IF runBlow THEN FALSE ELSE lis1
     \* audio effect: "if (opened && audioRef.current) play().catch(...)"
     /\ playReq' = IF changedO /\ opened /\ variant \notin PlayInHandler
                     THEN "pending" ELSE playReq
     \* message timer effect: clearTimeout of the previous run, then setTimeout
     /\ timerLeft' = IF variant \in Timed /\ changedB
                       THEN TimerStart(candlesBlown)
                       ELSE timerLeft
     \* candlesBlown effect: setCupcakes(cupcakesArr); setBurstPoints(bursts)
     /\ cupcakes' = IF runBlow THEN CupcakeRain(variant) ELSE cupcakes
     /\ burstPoints' = IF runBlow THEN CakeBurst(variant) ELSE burstPoints
  /\ depsOpened' = opened
  /\ depsBlown' = candlesBlown
  /\ UNCHANGED <<variant, mounted, opened, candlesBlown, showMessage, rafRef,
                 dataArray, crossed, sinceBlown, audioPlaying, touchStartY,
                 size, balloons, frozen, captures, unfreezeTimers, shots, tap,
                 pops, moved, bannerPose, starVars, muteVars>>

\* The component is removed from the tree: the cleanups of the last effect
\* runs are called.
Unmount ==
  /\ mounted /\ EffectsFlushed
  /\ mounted' = FALSE
  /\ rafPending' = IF micCleanup THEN CancelRaf(rafRef, rafPending) ELSE rafPending
  /\ trackLive' = IF micCleanup /\ micStreamRef THEN FALSE ELSE trackLive
  /\ micStreamRef' = IF micCleanup THEN FALSE ELSE micStreamRef
  /\ ctxState' = IF micCleanup /\ audioCtxRef THEN "closed" ELSE ctxState
  /\ audioCtxRef' = IF micCleanup THEN FALSE ELSE audioCtxRef
  /\ timerLeft' = IF variant \in Timed THEN NoTimer ELSE timerLeft
  /\ UNCHANGED <<variant, uiVars, gum, gumCount, rafRef, dataArray, crossed,
                 effVars, sinceBlown, audioVars, touchStartY,
                 sceneVars, starVars, muteVars>>

(***************************************************************************)
(* Time and timers                                                         *)
(***************************************************************************)
\* TickMs milliseconds pass
Tick ==
  /\ \/ timerLeft > 0
     \/ candlesBlown /\ sinceBlown < MessageDelay
     \/ \E i \in 1..Len(unfreezeTimers) : unfreezeTimers[i] > 0
  /\ timerLeft' = IF timerLeft > 0 THEN Max(0, timerLeft - TickMs) ELSE timerLeft
  /\ sinceBlown' = IF candlesBlown
                     THEN Min(MessageDelay, sinceBlown + TickMs)
                     ELSE sinceBlown
  /\ unfreezeTimers' = [i \in 1..Len(unfreezeTimers) |->
                          Max(0, unfreezeTimers[i] - TickMs)]
  /\ UNCHANGED <<variant, mounted, uiVars, micVars, effVars, audioVars,
                 touchStartY, size, balloons, burstPoints, cupcakes, frozen,
                 captures, shots, tap, pops, moved, bannerPose,
                 starVars, muteVars>>

\* the timer callback "() => setShowMessage(true)"
TimerFire ==
  /\ timerLeft = 0
  /\ timerLeft' = NoTimer
  /\ showMessage' = SetState(showMessage, TRUE)
  /\ UNCHANGED <<variant, mounted, opened, candlesBlown, listening, micVars,
                 effVars, sinceBlown, audioVars, touchStartY,
                 sceneVars, starVars, muteVars>>

(***************************************************************************)
(* The audio element                                                       *)
(***************************************************************************)
\* the promise of audio.play() resolves
PlayResolve ==
  /\ playReq = "pending"
  /\ playReq' = "resolved"
  /\ audioPlaying' = TRUE
  /\ UNCHANGED <<variant, mounted, uiVars, micVars, effVars, timeVars,
                 touchStartY,
                 sceneVars, starVars, muteVars>>

PlayRejectReverts ==
  /\ playReq = "pending"
  /\ playReq' = "rejected"
  /\ opened' = SetState(opened, FALSE)
  /\ UNCHANGED <<variant, mounted, candlesBlown, showMessage, listening,
                 micVars, effVars, timeVars, audioPlaying, touchStartY,
                 sceneVars, starVars, muteVars>>

\* the promise of audio.play() rejects; the handler is "() => {}" or a
\* catch block that only logs
PlayReject ==
  /\ playReq = "pending"
  /\ playReq' = "rejected"
  /\ UNCHANGED <<variant, mounted, uiVars, micVars, effVars, timeVars,
                 audioPlaying, touchStartY,
                 sceneVars, starVars, muteVars>>

\* the browser starts an <audio autoPlay> element by itself
AutoPlayStart ==
  /\ mounted
  /\ variant \in AutoPlayAttr
  /\ ~audioPlaying
  /\ audioPlaying' = TRUE
  /\ UNCHANGED <<variant, mounted, uiVars, micVars, effVars, timeVars,
                 playReq, touchStartY,
                 sceneVars, starVars, muteVars>>

\* toggleMute: "setMuted((m) => { const next = !m; if (audioRef.current)
\* audioRef.current.muted = next; return next; })"; the button is rendered
\* in every phase
toggleMute ==
  /\ mounted /\ EffectsFlushed
  /\ variant = P4
  /\ muted' = ToggleNext(muted)
  /\ audioMuted' = ToggleNext(muted)
  /\ UNCHANGED <<variant, mounted, uiVars, micVars, effVars, timeVars,
                 audioVars, touchStartY, sceneVars, starVars>>

(***************************************************************************)
(* The canvas and the scene                                                *)
(***************************************************************************)
\* bounds on the calls of takeScreenshot and of handleBalloonPop
MaxShots == 2
MaxPops  == 2

\* container sizes the ResizeObserver can report
CanvasWidths  == {0, 419, 420, 639, 640, 767, 768, 1023, 1024}
CanvasHeights == {0, 300}
SceneWidths   == {0, 800}
SceneHeights  == {300}

\* the ResizeObserver callback of ResponsiveCanvas
Resize(w, h) ==
  /\ mounted /\ opened
  /\ size' = <<w, h>>
  \* ShootingStar is unmounted with the Canvas and loses its state
  /\ active' = IF CanvasShown(variant, w, h) THEN active ELSE FALSE
  /\ UNCHANGED <<variant, mounted, uiVars, micVars, effVars, timeVars,
                 audioVars, touchStartY, balloons, burstPoints, cupcakes,
                 frozen, captures, unfreezeTimers, shots, tap, pops, moved,
                 bannerPose, meshY, meshIdx1, muteVars>>

\* handleBalloonPop(id, worldPos)
handleBalloonPop(id, worldPos) ==
  /\ balloons' = SetState(balloons, RemoveBalloon(balloons, id))
  /\ burstPoints' = SetState(burstPoints,
                             burstPoints \o PopGroup(variant, worldPos))
  /\ pops' = pops + 1

\* A tap on a balloon is a pointer-down followed by a click, and Balloon3D
\* binds handlePop to both.  The pointer-down is delivered to the balloon
\* under the pointer.
BalloonPointerDown(id) ==
  /\ mounted /\ EffectsFlushed
  /\ variant \in Rich
  /\ tap = NoTap /\ pops < MaxPops
  /\ BalloonRendered(id)
  /\ handleBalloonPop(id, PositionOf(id))
  /\ tap' = id
  /\ UNCHANGED <<variant, mounted, uiVars, micVars, effVars, timeVars,
                 audioVars, touchStartY, size, cupcakes, frozen, captures,
                 unfreezeTimers, shots, moved, bannerPose,
                 starVars, muteVars>>

\* The click of the tap is delivered to a balloon that is in the scene at
\* the pointer when the click is dispatched: the tapped balloon has been
\* removed by then, a balloon that was behind it has not.
BalloonClick(id) ==
  /\ mounted /\ EffectsFlushed
  /\ variant \in Rich
  /\ tap # NoTap
  /\ BalloonRendered(id)
  /\ handleBalloonPop(id, PositionOf(id))
  /\ tap' = NoTap
  /\ UNCHANGED <<variant, mounted, uiVars, micVars, effVars, timeVars,
                 audioVars, touchStartY, size, cupcakes, frozen, captures,
                 unfreezeTimers, shots, moved, bannerPose,
                 starVars, muteVars>>

\* the click of the tap finds no balloon at the pointer
ClickMissed ==
  /\ tap # NoTap
  /\ tap' = NoTap
  /\ UNCHANGED <<variant, mounted, uiVars, micVars, effVars, timeVars,
                 audioVars, touchStartY, size, balloons, burstPoints,
                 cupcakes, frozen, captures, unfreezeTimers, shots, pops,
                 moved, bannerPose, starVars, muteVars>>

\* takeScreenshot up to "await html2canvas(...)"
takeScreenshot ==
  /\ mounted /\ EffectsFlushed
  /\ ScreenshotButtonRendered
  /\ shots < MaxShots
  /\ shots' = shots + 1
  /\ frozen' = IF HasFrozen(variant) THEN TRUE ELSE frozen
  /\ captures' = captures + 1
  /\ UNCHANGED <<variant, mounted, uiVars, micVars, effVars, timeVars,
                 audioVars, touchStartY, size, balloons, burstPoints,
                 cupcakes, unfreezeTimers, tap, pops, moved, bannerPose,
                 starVars, muteVars>>

\* the html2canvas promise settles (ok: it resolved) and the rest of
\* takeScreenshot runs: the try block or the catch block, then finally
CaptureSettle(ok) ==
  /\ captures > 0
  /\ captures' = captures - 1
  /\ unfreezeTimers' = IF HasFrozen(variant) /\ UnfreezeScheduled(ok)
                         THEN Append(unfreezeTimers, UnfreezeDelay)
                         ELSE unfreezeTimers
  /\ UNCHANGED <<variant, mounted, uiVars, micVars, effVars, timeVars,
                 audioVars, touchStartY, size, balloons, burstPoints,
                 cupcakes, frozen, shots, tap, pops, moved, bannerPose,
                 starVars, muteVars>>

CaptureSettles == \E ok \in BOOLEAN : CaptureSettle(ok)

\* the timer callback "() => setFrozen(false)"
UnfreezeFire ==
  /\ unfreezeTimers # <<>> /\ Head(unfreezeTimers) = 0
  /\ unfreezeTimers' = Tail(unfreezeTimers)
  /\ frozen' = SetState(frozen, FALSE)
  /\ UNCHANGED <<variant, mounted, uiVars, micVars, effVars, timeVars,
                 audioVars, touchStartY, size, balloons, burstPoints,
                 cupcakes, captures, shots, tap, pops, moved, bannerPose,
                 starVars, muteVars>>

\* One animation frame of the Canvas: the useFrame callback of every object
\* in the scene runs.  pose is where the sine of the clock puts the banner.
Frame(pose) ==
  /\ mounted /\ variant \in Rich
  /\ CanvasRendered
  /\ bannerPose' = IF HasFrozen(variant) /\ frozen THEN "rest" ELSE pose
  /\ moved' = {k \in Kinds :
                 /\ ObjectRendered(k)
                 /\ IF k = "banner"
                      THEN ~(bannerPose = "rest" /\ bannerPose' = "rest")
                      ELSE ~(frozen /\ ReturnsWhenFrozen(k, variant))}
  /\ UNCHANGED <<variant, mounted, uiVars, micVars, effVars, timeVars,
                 audioVars, touchStartY, size, balloons, burstPoints,
                 cupcakes, frozen, captures, unfreezeTimers, shots, tap,
                 pops, starVars, muteVars>>

\* One animation frame of the Canvas of BirthdayWish.jsx: the useFrame
\* callback of ShootingStar.  spawn is "Math.random() < 0.004".  The mesh
\* is created from the pos state when active becomes true; its position is
\* a Vector3, whose components are x, y and z, so that position[1] is a
\* property of its own.
StarFrame(spawn) ==
  /\ mounted /\ variant = Main
  /\ CanvasRendered
  /\ IF active
       THEN /\ meshIdx1' = JsSub(meshIdx1, StarStep)
            /\ meshY' = meshY
            /\ active' = IF JsLess(meshIdx1', 0) THEN FALSE ELSE active
       ELSE IF spawn
              THEN /\ active' = TRUE
                   /\ meshY' = StarStartY
                   /\ meshIdx1' = "undefined"
              ELSE UNCHANGED starVars
  /\ UNCHANGED <<variant, mounted, uiVars, micVars, effVars, timeVars,
                 audioVars, touchStartY, sceneVars, muteVars>>

(***************************************************************************)
(* Specification                                                           *)
(***************************************************************************)
Next ==
  \/ GiftClick
  \/ BlowClick
  \/ \E y \in TouchYs : TouchStart(y)
  \/ \E y \in TouchYs : TouchEnd(y)
  \/ FlushEffects
  \/ Unmount
  \/ \E k \in 1..NumSamples : RafCheck(k)
  \/ \E k \in 1..NumSamples, t \in BOOLEAN : GumGrant(k, t)
  \/ \E k \in 1..NumSamples, t \in BOOLEAN : GumReject(k, t)
  \/ Tick
  \/ TimerFire
  \/ PlayResolve
  \/ PlayReject
  \/ AutoPlayStart

Spec == Init /\ [][Next]_vars

\* The balloons: the user opens the gift, blows the candles and taps
\* balloons.  The microphone and audio.play() requests are left pending.
BalloonNext ==
  \/ GiftClick
  \/ BlowClick
  \/ FlushEffects
  \/ Unmount
  \/ \E w \in SceneWidths, h \in SceneHeights : Resize(w, h)
  \/ \E id \in 1..BalloonCount(variant) : BalloonPointerDown(id)
  \/ \E id \in 1..BalloonCount(variant) : BalloonClick(id)
  \/ ClickMissed

BalloonSpec == Init /\ [][BalloonNext]_vars

\* The screenshots: the user opens the gift, blows the candles and takes
\* screenshots while the frames of the canvas run.  The microphone and
\* audio.play() requests are left pending.
FreezeNext ==
  \/ GiftClick
  \/ BlowClick
  \/ FlushEffects
  \/ Unmount
  \/ Tick
  \/ TimerFire
  \/ \E w \in SceneWidths, h \in SceneHeights : Resize(w, h)
  \/ takeScreenshot
  \/ CaptureSettles
  \/ UnfreezeFire
  \/ \E pose \in {"rest", "waving"} : Frame(pose)

FreezeSpec == Init /\ [][FreezeNext]_vars

\* captures settle, effects are flushed, time passes and due timers fire
FreezeLiveSpec ==
  /\ Init /\ [][FreezeNext]_vars
  /\ WF_vars(FlushEffects)
  /\ WF_vars(CaptureSettles)
  /\ WF_vars(Tick)
  /\ WF_vars(UnfreezeFire)

\* The shooting star: the gift is opened, the container is measured and the
\* frames of the Canvas run.
StarNext ==
  \/ GiftClick
  \/ FlushEffects
  \/ Unmount
  \/ \E w \in CanvasWidths, h \in CanvasHeights : Resize(w, h)
  \/ \E spawn \in BOOLEAN : StarFrame(spawn)

StarSpec == Init /\ [][StarNext]_vars

\* frames keep running while the Canvas is rendered
StarLiveSpec ==
  /\ Init /\ [][StarNext]_vars
  /\ WF_vars(\E spawn \in BOOLEAN : StarFrame(spawn))

\* The sound: the user opens the gift, blows the candles and toggles the
\* sound while the audio.play() requests settle.
MuteNext ==
  \/ GiftClick
  \/ BlowClick
  \/ FlushEffects
  \/ Unmount
  \/ PlayResolve
  \/ PlayReject
  \/ AutoPlayStart
  \/ toggleMute

MuteSpec == Init /\ [][MuteNext]_vars

\* The canvas alone: the gift is opened and the container is measured.
CanvasNext ==
  \/ GiftClick
  \/ FlushEffects
  \/ \E w \in CanvasWidths, h \in CanvasHeights : Resize(w, h)

CanvasSpec == Init /\ [][CanvasNext]_vars

\* effects are flushed, time passes and due timers fire
LiveSpec ==
  /\ Init /\ [][Next]_vars
  /\ WF_vars(FlushEffects)
  /\ WF_vars(Tick)
  /\ WF_vars(TimerFire)

TypeOK ==
  /\ variant \in Variants
  /\ mounted \in BOOLEAN
  /\ opened \in BOOLEAN /\ candlesBlown \in BOOLEAN
  /\ showMessage \in BOOLEAN /\ listening \in BOOLEAN
  /\ gum \in {"none", "pending", "granted", "rejected"}
  /\ gumCount \in 0..2
  /\ trackLive \in BOOLEAN /\ micStreamRef \in BOOLEAN
  /\ ctxState \in {"none", "open", "closed"} /\ audioCtxRef \in BOOLEAN
  /\ rafPending \in 0..2 /\ rafRef \in BOOLEAN
  /\ dataArray \in 1..NumSamples /\ crossed \in BOOLEAN
  /\ depsOpened \in BOOLEAN /\ depsBlown \in BOOLEAN /\ micCleanup \in BOOLEAN
  /\ timerLeft \in NoTimer..MessageDelay
  /\ sinceBlown \in 0..MessageDelay
  /\ playReq \in {"none", "pending", "resolved", "rejected"}
  /\ audioPlaying \in BOOLEAN
  /\ touchStartY \in TouchYs \cup {NoTouch}
  /\ size \in (CanvasWidths \cup SceneWidths) \X (CanvasHeights \cup SceneHeights)
  /\ balloons \in Seq(1..6) /\ Len(balloons) <= BalloonCount(variant)
  /\ burstPoints \in Seq(0..6) /\ cupcakes \in Seq(1..16)
  /\ frozen \in BOOLEAN
  /\ captures \in 0..MaxShots /\ shots \in 0..MaxShots
  /\ unfreezeTimers \in Seq(0..UnfreezeDelay)
  /\ tap \in 0..6 /\ pops \in 0..(MaxPops + 1)
  /\ moved \subseteq Kinds
  /\ bannerPose \in {"rest", "waving"}
  /\ active \in BOOLEAN /\ meshY \in 0..StarStartY
  /\ meshIdx1 \in {"undefined", "NaN"}
  /\ muted \in BOOLEAN /\ audioMuted \in BOOLEAN

(***************************************************************************)
(* Properties                                                              *)
(***************************************************************************)
\* a step in which the volume check ran with reading k
CheckStep(k) ==
  \/ RafCheck(k)
  \/ GumGrant(k, FALSE)
  \/ (ChainOnReject(variant) /\ GumReject(k, FALSE))

\* every asynchronous continuation other than the volume checks has run
Settled == gum # "pending" /\ playReq # "pending" /\ EffectsFlushed

\* C1 as stated: a volume check that runs while the widget is opened and the
\* candles are not blown sets candlesBlown when the average is at or above
\* the threshold and leaves it unchanged when the average is below.
C1_AtOrAbove ==
  [][\A k \in 1..NumSamples :
       (CheckStep(k) /\ mounted /\ opened /\ ~candlesBlown)
         => IF AtLeastTable[variant][k]
              THEN candlesBlown'
              ELSE candlesBlown' = candlesBlown]_vars

\* C1 amended: a volume check that runs while the widget is mounted and
\* opened and the candles are not blown sets candlesBlown when the average is
\* strictly above the threshold and leaves it unchanged when the average is
\* at or below the threshold.
C1_StrictlyAbove ==
  [][\A k \in 1..NumSamples :
       (CheckStep(k) /\ mounted /\ opened /\ ~candlesBlown)
         => IF AboveTable[variant][k]
              THEN candlesBlown'
              ELSE candlesBlown' = candlesBlown]_vars

\* a check read an average just above the threshold and blew the candles
C1_Witness ==
  /\ mounted /\ opened /\ candlesBlown /\ crossed
  /\ dataArray = 4 /\ gum = "granted" /\ ~depsBlown

\* C2: a click on the gift sets opened; in every state exactly one of the
\* gift and the scene panel is rendered, the gift iff opened is false, the
\* scene panel and the confetti iff opened is true.
C2_GiftOrScene ==
  /\ [][GiftClick => (~opened /\ opened')]_vars
  /\ [](/\ GiftRendered # ScenePanelRendered
        /\ GiftRendered <=> ~opened
        /\ ScenePanelRendered <=> opened
        /\ ConfettiRendered <=> opened)

\* the gift was clicked and the scene has been committed
C2_Witness ==
  /\ mounted /\ opened /\ depsOpened
  /\ ScenePanelRendered /\ ConfettiRendered /\ ~GiftRendered

\* C3: the check that crosses the threshold stops the tracks, closes the
\* audio context and schedules nothing; no check runs after a crossing.
C3_CrossingStopsListener ==
  /\ [][\A k \in 1..NumSamples :
          (CheckStep(k) /\ CrossTable[variant][k])
            => (~trackLive' /\ ctxState' = "closed" /\ rafPending' = 0)]_vars
  /\ [][crossed => ~(\E k \in 1..NumSamples : CheckStep(k))]_vars
  /\ [](crossed => rafPending = 0)

\* a check of an acquired stream crossed the threshold
C3_Witness ==
  /\ crossed /\ gum = "granted" /\ ~trackLive
  /\ ctxState = "closed" /\ rafPending = 0

\* C4: unmounting while the listener is active (stream acquired, threshold
\* not crossed) stops the tracks, closes the audio context and leaves no
\* volume check scheduled.
C4_UnmountStopsListener ==
  [][(Unmount /\ gum = "granted" /\ trackLive /\ ~crossed)
       => (~trackLive' /\ ctxState' = "closed" /\ rafPending' = 0)]_vars

\* C5: in the variants with refs, once candlesBlown is true and the pending
\* continuations have run, no track is live, no context is open, no check is
\* scheduled and listening is false.
C5_BlownReleasesMic ==
  (variant \in Rich /\ candlesBlown /\ Settled)
    => (~trackLive /\ ctxState # "open" /\ rafPending = 0 /\ ~listening)

C7_RejectKeepsState ==
  /\ [][\A k \in 1..NumSamples, t \in BOOLEAN :
          GumReject(k, t)
            => /\ opened' = opened
               /\ candlesBlown' = candlesBlown
               /\ variant \notin Rich => (rafPending' = 0 /\ ~crossed')]_vars
  /\ [][BlowClick => candlesBlown']_vars

\* C7 amended: a rejected permission request leaves opened unchanged; in the
\* variants without refs it leaves candlesBlown unchanged and starts no check
\* chain; in the variants with refs the continuation runs the first volume
\* check, and candlesBlown changes only if that check reads an average above
\* the threshold; the blow button still sets candlesBlown.
C7_RejectThenFirstCheck ==
  /\ [][\A k \in 1..NumSamples, t \in BOOLEAN :
          GumReject(k, t)
            => /\ opened' = opened
               /\ variant \notin Rich
                    => (candlesBlown' = candlesBlown /\ rafPending' = 0
                        /\ ~crossed' /\ dataArray' = dataArray)
               /\ (variant \in Rich /\ candlesBlown' # candlesBlown)
                    => (AboveTable[variant][k] /\ dataArray' = k)]_vars
  /\ [][BlowClick => candlesBlown']_vars

\* the permission was refused in a variant without refs and the button blew
\* the candles afterwards
C7_Witness ==
  /\ variant \notin Rich /\ gum = "rejected"
  /\ candlesBlown /\ ~crossed /\ rafPending = 0

\* C8: getUserMedia is requested at most once.
C8_AtMostOneRequest == gumCount <= 1

\* the request was made and a later blow has been committed without another
C8_Witness ==
  /\ gumCount = 1 /\ gum \in {"granted", "rejected"}
  /\ candlesBlown /\ depsBlown /\ depsOpened

\* C9: a rejected play() changes nothing but the promise, opened is true
\* afterwards and the microphone has been requested once the opening is
\* committed, as after a resolved play().
C9_PlayRejectionSwallowed ==
  /\ [][PlayReject
          => UNCHANGED <<mounted, uiVars, micVars, effVars, timeVars>>]_vars
  /\ [](playReq = "rejected" => (opened /\ ScenePanelRendered))
  /\ []((playReq \in {"rejected", "resolved"} /\ depsOpened /\ ~candlesBlown)
          => (gumCount = 1 /\ gum # "none"))

\* play() was rejected and the listener is running
C9_Witness ==
  /\ playReq = "rejected" /\ opened /\ ~audioPlaying
  /\ gum = "granted" /\ trackLive /\ rafPending = 1

\* C10: while the widget is mounted and opened, the microphone granted and
\* the candles not blown, exactly one check is pending; a check that does not
\* cross the threshold leaves exactly one pending; never two are pending.
C10_OnePendingCheck ==
  /\ []((mounted /\ opened /\ gum = "granted" /\ ~candlesBlown)
          => rafPending = 1)
  /\ [][\A k \in 1..NumSamples :
          (CheckStep(k) /\ ~CrossTable[variant][k]) => rafPending' = 1]_vars
  /\ [](rafPending <= 1)

\* a check read an average equal to the threshold and rescheduled itself
C10_Witness ==
  /\ mounted /\ opened /\ gum = "granted" /\ ~candlesBlown
  /\ dataArray = 3 /\ rafPending = 1

\* C11: in part_001, part_002 and part_004 a touch blows the candles exactly
\* when it is a downward swipe of more than SwipeMin px: a touch that ends
\* more than SwipeMin px below its start (a larger clientY) sets candlesBlown,
\* any other touch leaves candlesBlown unchanged.
C11_DownwardSwipeBlows ==
  [][\A y \in TouchYs :
       TouchEnd(y) =>
         candlesBlown' = (candlesBlown \/ (y - touchStartY > SwipeMin))]_vars

\* C12: in part_001, part_002 and part_004 listening is true only if a
\* microphone stream was granted and its tracks have not been stopped.
C12_ListeningMeansLiveMic ==
  (variant \in Rich /\ listening) => (gum = "granted" /\ trackLive)

\* C13: in part_001, part_003 and part_004 the audio element is not playing
\* in any state in which opened is false.
C13_MusicOnlyAfterGiftClick ==
  (variant \in {P1, P3, P4} /\ ~opened) => ~audioPlaying

\* C14: in part_001 and part_004 takeScreenshot sets frozen before the
\* capture starts; when the capture ends, with or without an exception, a
\* timer of UnfreezeDelay ms is started whose callback sets frozen to false;
\* frozen becomes true only by a screenshot request; and, the requests being
\* finitely many, frozen is eventually false for good while the component
\* stays mounted.
C14_FreezeThenUnfreeze ==
  /\ [][(takeScreenshot /\ HasFrozen(variant))
          => (frozen' /\ captures' = captures + 1)]_vars
  /\ [][\A ok \in BOOLEAN :
          (CaptureSettle(ok) /\ HasFrozen(variant))
            => unfreezeTimers' = Append(unfreezeTimers, UnfreezeDelay)]_vars
  /\ [][(UnfreezeFire /\ mounted) => ~frozen']_vars
  /\ [][(~frozen /\ frozen') => takeScreenshot]_vars
  /\ <>[](~mounted \/ ~frozen)

\* every requested capture has ended and every unfreeze timer has fired
C14_Witness ==
  /\ HasFrozen(variant) /\ mounted
  /\ shots = MaxShots /\ captures = 0 /\ unfreezeTimers = <<>> /\ ~frozen

\* C15: in part_001 and part_004 a frame that runs while frozen is true
\* changes the transform of no scene object.
C15_FrozenFrameMovesNothing ==
  [][\A pose \in {"rest", "waving"} :
       (Frame(pose) /\ HasFrozen(variant) /\ frozen) => moved' = {}]_vars

C17_PopRemovesOneBalloon ==
  /\ [][\A id \in 1..6 :
          (BalloonPointerDown(id) \/ BalloonClick(id)) =>
            /\ \E i \in 1..Len(balloons) :
                 /\ balloons[i] = id
                 /\ balloons' = SubSeq(balloons, 1, i - 1)
                                  \o SubSeq(balloons, i + 1, Len(balloons))
            /\ \A i \in 1..Len(balloons') : balloons'[i] # id
            /\ RemoveBalloon(balloons', id) = balloons']_vars
  /\ [](\A id \in 1..6 :
          RemoveBalloon(RemoveBalloon(balloons, id), id)
            = RemoveBalloon(balloons, id))
  /\ [][Len(balloons') <= Len(balloons)]_vars
  /\ [](Len(balloons) <= (IF variant = P4 THEN 5 ELSE 6))

\* balloons 2 and 4 of part_004 have been popped
C17_Witness ==
  /\ variant = P4 /\ mounted /\ balloons = <<1, 3, 5>> /\ pops = 2

\* C18: one tap on a balloon appends exactly one group of burst points (10
\* in part_001 and part_004, 12 in part_002), all at the tapped balloon's
\* position: the pointer-down of the tap appends the group and the click of
\* the same tap appends nothing more.
C18_OneTapOneBurst ==
  [][\A id \in 1..6 :
       /\ BalloonPointerDown(id) =>
            burstPoints' = burstPoints \o
              [i \in 1..(IF variant = P2 THEN 12 ELSE 10) |-> PositionOf(id)]
       /\ BalloonClick(id) => burstPoints' = burstPoints]_vars

\* C19: in part_001, part_002 and part_004 the cupcakes list is empty while
\* candlesBlown is false, holds 12, 16 or 10 positions once the candlesBlown
\* effect has run, and is never changed after that.
C19_CupcakesAfterBlow ==
  /\ []((variant \in Rich /\ ~candlesBlown) => cupcakes = <<>>)
  /\ []((variant \in Rich /\ candlesBlown /\ depsBlown) =>
          Len(cupcakes) = (CASE variant = P1 -> 12
                             [] variant = P2 -> 16
                             [] variant = P4 -> 10))
  /\ [][cupcakes # <<>> => cupcakes' = cupcakes]_vars

\* the candlesBlown effect of part_002 has run
C19_Witness ==
  /\ variant = P2 /\ candlesBlown /\ depsBlown /\ Len(cupcakes) = 16

\* C20: the field of view is a function of the measured width: 65 / 55 / 50
\* with bounds 640 and 1024 in BirthdayWish.jsx, part_000 and part_003,
\* 70 / 60 / 50 with bounds 420 and 768 in part_001 and part_002, 72 / 62 /
\* 50 with the same bounds in part_004; the Canvas is rendered only when the
\* width is greater than 0 (and the height is not 0 in the first three).
C20_FovFromWidth ==
  LET w == size[1]
      h == size[2]
      fov == Fov(variant, w)
  IN
  /\ variant \in {Main, P0, P3} =>
       /\ w < 640 => fov = 65
       /\ (640 <= w /\ w < 1024) => fov = 55
       /\ w >= 1024 => fov = 50
  /\ variant \in {P1, P2} =>
       /\ w < 420 => fov = 70
       /\ (420 <= w /\ w < 768) => fov = 60
       /\ w >= 768 => fov = 50
  /\ variant = P4 =>
       /\ w < 420 => fov = 72
       /\ (420 <= w /\ w < 768) => fov = 62
       /\ w >= 768 => fov = 50
  /\ CanvasRendered => w > 0
  /\ (CanvasRendered /\ variant \in {Main, P0, P3}) => h # 0

\* part_004 measured at the lower bound of its middle range
C20_Witness ==
  /\ variant = P4 /\ size = <<420, 300>> /\ CanvasRendered
  /\ Fov(variant, size[1]) = 62

\* C21: in BirthdayWish.jsx an active shooting star moves down by StarStep
\* in every frame and becomes inactive after finitely many frames, for as
\* long as the component stays mounted.
C21_StarFallsAndEnds ==
  /\ [][\A spawn \in BOOLEAN :
          (StarFrame(spawn) /\ active) => meshY' = meshY - StarStep]_vars
  /\ active ~> (~active \/ ~mounted)

\* C22: in part_004 the muted property of the audio element equals the
\* muted state in every state; toggleMute flips both, so that two calls in
\* a row restore them, and changes neither opened nor candlesBlown.
C22_MutedInSync ==
  /\ [](variant = P4 => audioMuted = muted)
  /\ [][toggleMute =>
          /\ muted' = ~muted /\ audioMuted' = ~audioMuted
          /\ ToggleNext(muted') = muted /\ ToggleNext(audioMuted') = audioMuted
          /\ opened' = opened /\ candlesBlown' = candlesBlown]_vars

\* the sound was muted before the gift was opened and is still muted after
C22_Witness ==
  /\ variant = P4 /\ mounted /\ opened /\ depsOpened
  /\ muted /\ audioMuted /\ playReq = "resolved"

====
